---- MODULE Spec2Model ----
(***************************************************************************)
(* Model of src/src/App.tsx: the adherence form's state (factors, apiKey,  *)
(* apiKeyError, isLoading, prediction), its event handlers, and the        *)
(* asynchronous calculateRisk / getAIValidation pipeline, which suspends   *)
(* at its await points.  Purely presentational state (showApiKey) is left  *)
(* out: no handler reads it.                                               *)
(***************************************************************************)
EXTENDS Integers, Sequences, FiniteSets, TLC

\* ---- bounds of the exploration ----
MaxLen == 3          \* longest remote response text, in characters
MaxEdits == 3        \* factor edits the user makes in a session
MaxChecks == 2       \* times the user triggers Check Risk in a session

\* ---- program constants ----
barriers == <<"Cost concerns", "Memory issues", "Transportation", "Complex schedule">>
Medications == {"1-2", "3-5", "6+"}
Histories == {"good", "fair", "poor"}
Keys == {"", "sk-test"}
ErrorMessage == "Invalid API key or API error. Please check your OpenAI API key."
\* useState(null): no result stored yet
NoPrediction == [null |-> TRUE]
\* String.prototype.match found nothing (a /\d+/ match is never empty)
NoMatch == <<>>

\* characters a remote response is made of, and the value of the decimal digits
Alphabet == {"0", "1", "7", "x"}
DigitVal == [ch \in {"0", "1", "2", "3", "4", "5", "6", "7", "8", "9"} |->
               CASE ch = "0" -> 0 [] ch = "1" -> 1 [] ch = "2" -> 2 [] ch = "3" -> 3
                 [] ch = "4" -> 4 [] ch = "5" -> 5 [] ch = "6" -> 6 [] ch = "7" -> 7
                 [] ch = "8" -> 8 [] ch = "9" -> 9]
Texts == UNION {[1..n -> Alphabet] : n \in 0..MaxLen}
\* the replies a session receives: none or no digits, a score in range, a
\* digit run inside other text, a number above 100
Replies == {<<>>, <<"x">>, <<"7", "1">>, <<"x", "0", "x">>, <<"1", "7", "0">>}

\* the values the form's controls can give factors: any medications and
\* history option, and the barriers in any order of selection
BarrierArrays ==
  {arr \in UNION {[1..n -> {barriers[i] : i \in 1..Len(barriers)}] : n \in 0..Len(barriers)} :
     \A i, j \in 1..Len(arr) : arr[i] = arr[j] => i = j}
FactorSets ==
  {[medications |-> m, history |-> h, barriers |-> arr] :
     m \in Medications, h \in Histories, arr \in BarrierArrays}

\* factors, apiKey, apiKeyError, isLoading, prediction: the useState slots.
\* calls: the calculateRisk invocations suspended at their await, each with the
\*   factors and apiKey of the render that created it and its local score.
\* nEdits, nChecks: how many factor edits and Check Risk clicks the session
\*   has seen, kept to bound the exploration.
VARIABLES factors, apiKey, apiKeyError, isLoading, prediction, calls, nEdits, nChecks

vars == <<factors, apiKey, apiKeyError, isLoading, prediction, calls, nEdits, nChecks>>

Min(a, b) == IF a < b THEN a ELSE b
Max(a, b) == IF a > b THEN a ELSE b

\* ---- Array helpers ----
includes(arr, x) == \E i \in 1..Len(arr) : arr[i] = x
filter(arr, x) == SelectSeq(arr, LAMBDA b : b # x)

\* ---- the clinical scorer (calculateRisk, synchronous part) ----
\* variant: every barrier costs 5 points instead of 10
ClinicalScore_halfBarrier(f) ==
  LET s1 == IF f.medications = "6+" THEN 70
            ELSE IF f.medications = "3-5" THEN 85 ELSE 100
      s2 == IF f.history = "poor" THEN s1 - 30
            ELSE IF f.history = "fair" THEN s1 - 15 ELSE s1
  IN  Max(0, Min(100, s2 - Len(f.barriers) * 5))

ClinicalScore(f) ==
  LET s0 == 100
      s1 == IF f.medications = "6+" THEN s0 - 30
            ELSE IF f.medications = "3-5" THEN s0 - 15 ELSE s0
      s2 == IF f.history = "poor" THEN s1 - 30
            ELSE IF f.history = "fair" THEN s1 - 15 ELSE s1
      s3 == s2 - Len(f.barriers) * 10
  IN  Max(0, Min(100, s3))

\* variant: the High threshold includes 60
riskOf_inclusive(score) ==
  IF score <= 60 THEN "High" ELSE IF score < 80 THEN "Medium" ELSE "Low"

riskOf(score) == IF score < 60 THEN "High" ELSE IF score < 80 THEN "Medium" ELSE "Low"

Advice(b) ==
  CASE b = "Cost concerns" -> "Consider medication assistance programs"
    [] b = "Memory issues" -> "Set up medication reminders"
    [] b = "Transportation" -> "Arrange medication delivery service"
    [] b = "Complex schedule" -> "Simplify medication schedule"

\* variant: one advisory per element of factors.barriers, in array order
generateRecommendations_toggleOrder(f, risk) ==
  LET r == [i \in 1..Len(f.barriers) |-> Advice(f.barriers[i])]
  IN  IF risk = "High" THEN Append(r, "Schedule follow-up within 2 weeks") ELSE r

generateRecommendations(f, risk) ==
  LET r1 == IF includes(f.barriers, "Cost concerns")
            THEN <<"Consider medication assistance programs">> ELSE <<>>
      r2 == IF includes(f.barriers, "Memory issues")
            THEN Append(r1, "Set up medication reminders") ELSE r1
      r3 == IF includes(f.barriers, "Transportation")
            THEN Append(r2, "Arrange medication delivery service") ELSE r2
      r4 == IF includes(f.barriers, "Complex schedule")
            THEN Append(r3, "Simplify medication schedule") ELSE r3
  IN  IF risk = "High" THEN Append(r4, "Schedule follow-up within 2 weeks") ELSE r4

\* variant: the recommendations are derived from the factors on screen
StorePrediction_currentFactors(c, aiScore) ==
  LET risk == riskOf(c.score)
  IN  [score |-> c.score, aiScore |-> aiScore, risk |-> risk,
       recommendations |-> generateRecommendations(factors, risk)]

\* the object handed to setPrediction by the invocation c, given the AI score
StorePrediction(c, aiScore) ==
  LET risk == riskOf(c.score)
  IN  [score |-> c.score, aiScore |-> aiScore, risk |-> risk,
       recommendations |-> generateRecommendations(c.factors, risk)]

\* ---- parsing of the remote response (getAIValidation) ----
IsDigit(ch) == ch \in DOMAIN DigitVal

\* variant: /\d/ instead of /\d+/, a single digit
match_singleDigit(text) ==
  IF \A i \in 1..Len(text) : ~IsDigit(text[i]) THEN NoMatch
  ELSE LET start == CHOOSE i \in 1..Len(text) :
                      IsDigit(text[i]) /\ \A k \in 1..(i-1) : ~IsDigit(text[k])
       IN  SubSeq(text, start, start)

\* response.content.match(/\d+/): the leftmost, longest run of digits, or null
match(text) ==
  IF \A i \in 1..Len(text) : ~IsDigit(text[i]) THEN NoMatch
  ELSE LET start == CHOOSE i \in 1..Len(text) :
                      IsDigit(text[i]) /\ \A k \in 1..(i-1) : ~IsDigit(text[k])
           stop == CHOOSE j \in start..Len(text) :
                      /\ \A k \in start..j : IsDigit(text[k])
                      /\ (j = Len(text) \/ ~IsDigit(text[j+1]))
       IN  SubSeq(text, start, stop)

RECURSIVE parseInt(_)
parseInt(digits) ==
  IF Len(digits) = 0 THEN 0
  ELSE parseInt(SubSeq(digits, 1, Len(digits) - 1)) * 10 + DigitVal[digits[Len(digits)]]

\* variant: only the lower clamp
ClampAI_noUpper(n) == Max(0, n)

ClampAI(n) == Min(100, Max(0, n))

\* ---- state after construction ----
Init ==
  /\ factors = [medications |-> "1-2", history |-> "good", barriers |-> <<>>]
  /\ apiKey = ""
  /\ apiKeyError = ""
  /\ isLoading = FALSE
  /\ prediction = NoPrediction
  /\ calls = {}
  /\ nEdits = 0
  /\ nChecks = 0

\* a continuation queued as a microtask runs before the next user event
NoMicrotask == \A c \in calls : c.stage # "microtask"

\* variant: the button is never disabled
CheckEnabled_always == TRUE

\* the Check Risk button is rendered with disabled={isLoading}
CheckEnabled == ~isLoading

\* ---- user events ----
SetMedications(m) ==
  /\ NoMicrotask /\ nEdits < MaxEdits
  /\ m # factors.medications
  /\ factors' = [factors EXCEPT !.medications = m]
  /\ nEdits' = nEdits + 1
  /\ UNCHANGED <<apiKey, apiKeyError, isLoading, prediction, calls, nChecks>>

SetHistory(h) ==
  /\ NoMicrotask /\ nEdits < MaxEdits
  /\ h # factors.history
  /\ factors' = [factors EXCEPT !.history = h]
  /\ nEdits' = nEdits + 1
  /\ UNCHANGED <<apiKey, apiKeyError, isLoading, prediction, calls, nChecks>>

\* the barrier button's onClick; handleKeyDown does the same on Enter and Space
ToggleBarrier(index) ==
  /\ NoMicrotask /\ nEdits < MaxEdits
  /\ LET barrier == barriers[index]
         isSelected == includes(factors.barriers, barrier)
     IN  factors' = [factors EXCEPT !.barriers =
                       IF isSelected THEN filter(factors.barriers, barrier)
                       ELSE Append(factors.barriers, barrier)]
  /\ nEdits' = nEdits + 1
  /\ UNCHANGED <<apiKey, apiKeyError, isLoading, prediction, calls, nChecks>>

SetApiKey(k) ==
  /\ NoMicrotask
  /\ k # apiKey
  /\ apiKey' = k
  /\ UNCHANGED <<factors, apiKeyError, isLoading, prediction, calls, nEdits, nChecks>>

\* calculateRisk up to its await: the invocation keeps the factors and apiKey
\* of the render it was created in
CalculateRisk ==
  /\ NoMicrotask /\ nChecks < MaxChecks
  /\ CheckEnabled
  /\ isLoading' = TRUE
  /\ nChecks' = nChecks + 1
  /\ calls' = calls \cup
       {[id |-> nChecks + 1, factors |-> factors, apiKey |-> apiKey,
         score |-> ClinicalScore(factors),
         stage |-> IF apiKey = "" THEN "microtask" ELSE "awaiting"]}
  /\ UNCHANGED <<factors, apiKey, apiKeyError, prediction, nEdits>>

\* the rest of calculateRisk, once getAIValidation has produced aiScore
Complete(c, aiScore) ==
  /\ prediction' = StorePrediction(c, aiScore)
  /\ isLoading' = FALSE
  /\ calls' = calls \ {c}
  /\ UNCHANGED <<factors, apiKey, nEdits, nChecks>>

\* variant: the no-key branch clears the error message
Resume_clearsError(c) ==
  /\ c \in calls /\ c.stage = "microtask"
  /\ Complete(c, c.score)
  /\ apiKeyError' = ""

\* no API key: getAIValidation returned clinicalScore without a remote call
Resume(c) ==
  /\ c \in calls /\ c.stage = "microtask"
  /\ Complete(c, c.score)
  /\ UNCHANGED apiKeyError

\* chain.invoke resolved with the given text
Respond(c, text) ==
  /\ c \in calls /\ c.stage = "awaiting"
  /\ LET m == match(text)
     IN  IF m = NoMatch
         THEN /\ apiKeyError' = ErrorMessage
              /\ Complete(c, c.score)
         ELSE /\ apiKeyError' = ""
              /\ Complete(c, ClampAI(parseInt(m)))

\* variant: the catch block does not set the error message
Fail_noError(c) ==
  /\ c \in calls /\ c.stage = "awaiting"
  /\ UNCHANGED apiKeyError
  /\ Complete(c, c.score)

\* variant: no catch block, the rejection escapes calculateRisk
Fail_raises(c) ==
  /\ c \in calls /\ c.stage = "awaiting"
  /\ calls' = calls \ {c}
  /\ UNCHANGED <<factors, apiKey, apiKeyError, isLoading, prediction, nEdits, nChecks>>

\* chain.invoke rejected (or anything else in the try block threw)
Fail(c) ==
  /\ c \in calls /\ c.stage = "awaiting"
  /\ apiKeyError' = ErrorMessage
  /\ Complete(c, c.score)

Next ==
  \/ \E m \in Medications : SetMedications(m)
  \/ \E h \in Histories : SetHistory(h)
  \/ \E index \in 1..Len(barriers) : ToggleBarrier(index)
  \/ \E k \in Keys : SetApiKey(k)
  \/ CalculateRisk
  \/ \E c \in calls : Resume(c)
  \/ \E c \in calls, text \in Replies : Respond(c, text)
  \/ \E c \in calls : Fail(c)

\* a session, from construction
Spec == Init /\ [][Next]_vars

\* assessments of a form the user has filled in: every factor set, either
\* credential, no further edits
AssessInit ==
  /\ factors \in FactorSets
  /\ apiKey \in Keys
  /\ apiKeyError = ""
  /\ isLoading = FALSE
  /\ prediction = NoPrediction
  /\ calls = {}
  /\ nEdits = 0
  /\ nChecks = 0

AssessNext ==
  \/ CalculateRisk
  \/ \E c \in calls : Resume(c)
  \/ \E c \in calls, text \in Replies : Respond(c, text)
  \/ \E c \in calls : Fail(c)

AssessSpec == AssessInit /\ [][AssessNext]_vars

\* assessments against every response text up to MaxLen, for the factor sets
\* that differ in the medications only (clinical scores 100, 85 and 70)
ParseInit ==
  /\ factors \in {f \in FactorSets : f.barriers = <<>> /\ f.history = "good"}
  /\ apiKey \in Keys
  /\ apiKeyError = ""
  /\ isLoading = FALSE
  /\ prediction = NoPrediction
  /\ calls = {}
  /\ nEdits = 0
  /\ nChecks = 0

ParseNext ==
  \/ CalculateRisk
  \/ \E c \in calls : Resume(c)
  \/ \E c \in calls, text \in Texts : Respond(c, text)
  \/ \E c \in calls : Fail(c)

ParseSpec == ParseInit /\ [][ParseNext]_vars
\* the remote completion eventually resolves or rejects, and queued
\* continuations run
FairSpec ==
  /\ Spec
  /\ WF_vars(\E c \in calls : Resume(c))
  /\ WF_vars(\E c \in calls : Fail(c) \/ \E text \in Replies : Respond(c, text))

\* the form only ever holds one of the factor sets AssessInit starts from
FactorsWellFormed == factors \in FactorSets

\* ---- what the specification says a result is, stated from the factor set ----
Selected(f) == {f.barriers[i] : i \in 1..Len(f.barriers)}

ExpectedScore(f) ==
  LET med == CASE f.medications = "6+" -> 30 [] f.medications = "3-5" -> 15 [] OTHER -> 0
      hist == CASE f.history = "poor" -> 30 [] f.history = "fair" -> 15 [] OTHER -> 0
      raw == 100 - med - hist - 10 * Cardinality(Selected(f))
  IN  IF raw < 0 THEN 0 ELSE IF raw > 100 THEN 100 ELSE raw

ExpectedTier(score) ==
  CASE score < 60 -> "High"
    [] score >= 60 /\ score < 80 -> "Medium"
    [] score >= 80 -> "Low"

ExpectedRecommendations(f, tier) ==
  LET chosen == SelectSeq(barriers, LAMBDA b : b \in Selected(f))
      advisories == [i \in 1..Len(chosen) |-> Advice(chosen[i])]
  IN  IF tier = "High"
      THEN advisories \o <<"Schedule follow-up within 2 weeks">>
      ELSE advisories

HasDigit(text) == \E i \in 1..Len(text) : IsDigit(text[i])

RECURSIVE Pow10(_)
Pow10(n) == IF n = 0 THEN 1 ELSE 10 * Pow10(n - 1)

RECURSIVE SumFrom(_, _, _)
SumFrom(text, i, j) ==
  IF i > j THEN 0 ELSE DigitVal[text[i]] * Pow10(j - i) + SumFrom(text, i + 1, j)

\* value of the first maximal run of decimal digits of a text that has one
FirstRunValue(text) ==
  LET i == CHOOSE a \in 1..Len(text) :
             IsDigit(text[a]) /\ \A k \in 1..Len(text) : IsDigit(text[k]) => a <= k
      j == CHOOSE b \in i..Len(text) :
             /\ \A k \in i..b : IsDigit(text[k])
             /\ \A b2 \in (b+1)..Len(text) : \E k \in i..b2 : ~IsDigit(text[k])
  IN  SumFrom(text, i, j)

\* the step completes the invocation c
Completes(c) == c \in calls /\ c \notin calls'

\* C1: whenever a result is stored, its clinical score and its AI score are
\* integers between 0 and 100.
C1_ScoresInRange ==
  prediction # NoPrediction =>
    prediction.score \in 0..100 /\ prediction.aiScore \in 0..100

C1_Witness ==
  /\ prediction # NoPrediction
  /\ prediction.aiScore = 100 /\ prediction.score < 100
  /\ apiKeyError = ""

\* C2: the clinical score a completing assessment stores is 100 minus the
\* medication deduction, the history deduction and 10 per selected barrier of
\* the factor set it was triggered with, clamped to [0,100].
C2_ClinicalScore ==
  [][\A c \in calls : Completes(c) => prediction'.score = ExpectedScore(c.factors)]_vars

C2_Witness ==
  /\ prediction # NoPrediction /\ prediction.score = 0
  /\ factors.medications = "6+" /\ factors.history = "poor"
  /\ Len(factors.barriers) = 4

\* C3: the tier of a stored result is High below 60, Medium from 60 to 79 and
\* Low from 80, as a function of the clinical score only.
C3_TierFromClinicalScore ==
  prediction # NoPrediction => prediction.risk = ExpectedTier(prediction.score)

C3_Witness ==
  /\ prediction # NoPrediction
  /\ prediction.score = 60 /\ prediction.risk = "Medium" /\ prediction.aiScore < 60

\* C4: the recommendations a completing assessment stores are the advisories of
\* the selected barriers in declaration order, whatever the toggle order, then
\* the follow-up advisory exactly when the tier is High.
C4_Recommendations ==
  [][\A c \in calls : Completes(c) =>
       prediction'.recommendations =
         ExpectedRecommendations(c.factors, ExpectedTier(ExpectedScore(c.factors)))]_vars

C4_Witness ==
  /\ prediction # NoPrediction
  /\ factors.barriers = <<"Complex schedule", "Transportation", "Memory issues", "Cost concerns">>
  /\ prediction.recommendations = <<"Consider medication assistance programs",
                                    "Set up medication reminders",
                                    "Arrange medication delivery service",
                                    "Simplify medication schedule",
                                    "Schedule follow-up within 2 weeks">>

\* C5: an assessment triggered with an empty credential never has a remote call
\* outstanding, stores the clinical score as the AI score, and leaves the error
\* message, the factors and the credential as they were.
C5_NoCredential ==
  /\ [](\A c \in calls : c.apiKey = "" => c.stage # "awaiting")
  /\ [][\A c \in calls : (Completes(c) /\ c.apiKey = "") =>
          /\ prediction'.aiScore = c.score
          /\ apiKeyError' = apiKeyError
          /\ factors' = factors /\ apiKey' = apiKey]_vars

C5_Witness ==
  \E c \in calls : c.apiKey = "" /\ c.stage = "microtask" /\ apiKeyError # ""

\* C6: with a credential, when the remote call fails or its response has no
\* digits, the AI score is the clinical score, the error message is non-empty
\* at completion, and score, tier and recommendations are those of the factors.
C6_RemoteFailure ==
  [][\A c \in calls :
       (c.apiKey # "" /\ (Fail(c) \/ \E text \in Texts : ~HasDigit(text) /\ Respond(c, text))) =>
         /\ prediction'.aiScore = c.score
         /\ apiKeyError' # ""
         /\ prediction'.score = ExpectedScore(c.factors)
         /\ prediction'.risk = ExpectedTier(ExpectedScore(c.factors))
         /\ prediction'.recommendations =
              ExpectedRecommendations(c.factors, ExpectedTier(ExpectedScore(c.factors)))]_vars

C6_Witness ==
  /\ prediction # NoPrediction /\ calls = {}
  /\ apiKeyError # "" /\ apiKey # ""
  /\ prediction.aiScore = prediction.score
  /\ prediction.recommendations # <<>>

\* C7: with a credential, when the response text has a digit, the AI score is
\* the value of its first maximal digit run, capped at 100, and the error
\* message is empty afterwards.
C7_ParsedScore ==
  [][\A c \in calls, text \in Texts :
       (c.apiKey # "" /\ HasDigit(text) /\ Respond(c, text)) =>
         /\ prediction'.aiScore = (IF FirstRunValue(text) > 100 THEN 100
                                   ELSE FirstRunValue(text))
         /\ apiKeyError' = ""]_vars

C7_Witness ==
  /\ prediction # NoPrediction /\ calls = {}
  /\ prediction.aiScore = 17 /\ prediction.score = 100
  /\ apiKeyError = ""

\* C8: at most one assessment is in flight; while one is, the busy flag is set,
\* and while the busy flag is set the check action cannot be triggered.
C8_SingleFlight ==
  /\ Cardinality(calls) <= 1
  /\ (calls # {} => isLoading)
  /\ (isLoading => ~ENABLED CalculateRisk)

C8_Witness ==
  \E c \in calls : c.id = 2 /\ c.stage = "awaiting" /\ isLoading /\ prediction # NoPrediction

\* C9: every triggered assessment is eventually followed by a stored result
\* with the busy flag cleared, and the busy flag is cleared only in the step
\* that stores the result of the pending assessment.
C9_RunsToCompletion ==
  /\ (isLoading ~> (~isLoading /\ prediction # NoPrediction /\ calls = {}))
  /\ [][(isLoading /\ ~isLoading') =>
          \E c \in calls : /\ calls' = {}
                           /\ prediction' # NoPrediction
                           /\ prediction'.score = c.score]_vars

C9_Witness ==
  /\ ~isLoading /\ calls = {} /\ nChecks = 2
  /\ prediction # NoPrediction /\ apiKeyError # ""

\* C10: the result a completing assessment stores corresponds to the factor
\* set and credential of its trigger, the remote call being made exactly when
\* that credential was non-empty, and the step leaves the factors and the
\* credential on screen untouched.
C10_SnapshotAtTrigger ==
  /\ [](\A c \in calls : (c.stage = "awaiting") <=> (c.apiKey # ""))
  /\ [][\A c \in calls : Completes(c) =>
          /\ prediction'.score = ExpectedScore(c.factors)
          /\ prediction'.risk = ExpectedTier(ExpectedScore(c.factors))
          /\ prediction'.recommendations =
               ExpectedRecommendations(c.factors, ExpectedTier(ExpectedScore(c.factors)))
          /\ factors' = factors /\ apiKey' = apiKey]_vars

C10_Witness ==
  \E c \in calls :
    /\ c.stage = "awaiting" /\ isLoading
    /\ c.factors.barriers # factors.barriers
    /\ c.factors.medications # factors.medications
    /\ c.apiKey # apiKey
====
